---- MODULE Spec2Model ----
(***************************************************************************)
(* Model of Recipe_App_Git.py: the shopping-list organizer                 *)
(* (erstelle_einkaufsliste), the step normalizer (erstelle_zubereitung),   *)
(* the pydantic schema (Zutat, RezeptAusgabe) behind the output parser and *)
(* the submission callback (rezept_erstellen).                             *)
(*                                                                         *)
(* Strings that the code scans character by character (dish name,          *)
(* preparation text) are sequences of one-character strings.  Department   *)
(* names are written in ASCII (ae, ue, oe for the umlauts).                *)
(*                                                                         *)
(* A Python float is modelled exactly on the values the model uses: a      *)
(* price is a pair <<hi, lo>> standing for (hi * 2^53 + lo) / 8 euro, lo   *)
(* far below 2^53.  Every such number with hi = 0 is a double; with        *)
(* hi >= 1 it is a double iff lo is a multiple of the binade's ulp.        *)
(***************************************************************************)
EXTENDS Integers, Sequences, FiniteSets, TLC

\* ------------------------------------------------------------------ bounds
MaxZutaten == 3
MaxLen == 5
MaxEinreichungen == 3

\* ------------------------------------------------------------- taxonomy
SUPERMARKT_REIHENFOLGE ==
  << "Obst & Gemuese", "Backwaren", "Milchprodukte & Eier", "Fleisch & Wurst",
     "Fisch & Meeresfruechte", "Tiefkuehlkost", "Konserven & Fertiggerichte",
     "Nudeln, Reis & Getreide", "Gewuerze, Oele & Essig", "Backen & Suesses",
     "Getraenke", "Sonstiges" >>

\* the icons, named in words; ABTEILUNG_ICONS.get(abteilung, cart)
ABTEILUNG_ICONS ==
  << "Salat", "Brot", "Ei", "Fleisch", "Fisch", "Eiswuerfel", "Konserve",
     "Spaghetti", "Salz", "Torte", "Becher", "Einkaufswagen" >>

InReihenfolge(abteilung) ==
  \E i \in 1..Len(SUPERMARKT_REIHENFOLGE) : SUPERMARKT_REIHENFOLGE[i] = abteilung

\* list.index: the 0-based position of the first occurrence
ReihenfolgeIndex(abteilung) ==
  (CHOOSE i \in 1..Len(SUPERMARKT_REIHENFOLGE) :
      /\ SUPERMARKT_REIHENFOLGE[i] = abteilung
      /\ \A j \in 1..(i - 1) : SUPERMARKT_REIHENFOLGE[j] # abteilung) - 1

\* mutant of Sortierschluessel: -1 (as str.find gives) for a department
\* outside the list
Sortierschluessel_MinusEins(abteilung) ==
  IF InReihenfolge(abteilung) THEN ReihenfolgeIndex(abteilung) ELSE 0 - 1

\* the key of sorted(): the index, or 99 for a department outside the list
Sortierschluessel(abteilung) ==
  IF InReihenfolge(abteilung) THEN ReihenfolgeIndex(abteilung) ELSE 99

\* ------------------------------------------------------ float arithmetic
\* 0.0
Null == <<0, 0>>

\* the spacing of the doubles in the binade of hi * 2^53 (1 below 2^53: every
\* number of the model below 2^53 is a double)
RECURSIVE Ulp(_)
Ulp(hi) == IF hi = 0 THEN 1 ELSE 2 * Ulp(hi \div 2)

\* n / d rounded to the nearest integer, ties to the even one
HalbGerade(n, d) ==
  LET q == n \div d
      r == n % d
  IN  IF 2 * r < d THEN q
      ELSE IF 2 * r > d THEN q + 1
      ELSE IF q % 2 = 0 THEN q ELSE q + 1

\* IEEE-754 round-to-nearest-even of the exact number <<hi, lo>>
Runde(x) == <<x[1], Ulp(x[1]) * HalbGerade(x[2], Ulp(x[1]))>>

\* a + b on floats: the exact sum, correctly rounded
float_add(a, b) == Runde(<<a[1] + b[1], a[2] + b[2]>>)

\* f"{x:.2f}": the float's exact value rounded half-even to cents;
\* <<hi, c>> stands for hi * 2^50 euro and c cents
Format2(x) == <<x[1], HalbGerade(25 * x[2], 2)>>

\* ------------------------------------------------- erstelle_einkaufsliste
\* mutant of setdefault_append: insert(0, z) in place of append(z)
setdefault_vorne(gruppen, z) ==
  IF \E i \in 1..Len(gruppen) : gruppen[i][1] = z.abteilung
  THEN [i \in 1..Len(gruppen) |->
          IF gruppen[i][1] = z.abteilung
          THEN <<gruppen[i][1], <<z>> \o gruppen[i][2]>>
          ELSE gruppen[i]]
  ELSE Append(gruppen, <<z.abteilung, <<z>>>>)

\* gruppen.setdefault(z.abteilung, []).append(z) on an insertion-ordered dict,
\* a sequence of <<abteilung, artikel>> pairs
setdefault_append(gruppen, z) ==
  IF \E i \in 1..Len(gruppen) : gruppen[i][1] = z.abteilung
  THEN [i \in 1..Len(gruppen) |->
          IF gruppen[i][1] = z.abteilung
          THEN <<gruppen[i][1], Append(gruppen[i][2], z)>>
          ELSE gruppen[i]]
  ELSE Append(gruppen, <<z.abteilung, <<z>>>>)

RECURSIVE Gruppiere(_)
Gruppiere(zs) ==
  IF zs = <<>> THEN <<>>
  ELSE setdefault_append(Gruppiere(SubSeq(zs, 1, Len(zs) - 1)), zs[Len(zs)])

\* one insertion of the stable sort: x goes behind every element whose key
\* is not greater
Einfuegen(sortiert, x) ==
  LET k == Cardinality({i \in 1..Len(sortiert) :
                 Sortierschluessel(sortiert[i][1]) <= Sortierschluessel(x[1])})
  IN  SubSeq(sortiert, 1, k) \o <<x>> \o SubSeq(sortiert, k + 1, Len(sortiert))

\* sorted(gruppen.items(), key=...): stable
RECURSIVE sorted(_)
sorted(g) ==
  IF g = <<>> THEN <<>>
  ELSE Einfuegen(sorted(SubSeq(g, 1, Len(g) - 1)), g[Len(g)])

Icon(abteilung) ==
  IF InReihenfolge(abteilung)
  THEN ABTEILUNG_ICONS[ReihenfolgeIndex(abteilung) + 1]
  ELSE "Einkaufswagen"

Kopfzeile(abteilung) ==
  [typ |-> "kopf", icon |-> Icon(abteilung), abteilung |-> abteilung]

Artikelzeile(z) ==
  [typ |-> "artikel", name |-> z.name, menge |-> z.menge,
   preis |-> Format2(z.preis_eur)]

Gesamtzeile(gesamt) == [typ |-> "gesamt", preis |-> Format2(gesamt)]

\* mutant of Artikelschritt: gesamt = z.preis_eur in place of +=
Artikelschritt_Zuweisung(st, z) ==
  [zeilen |-> Append(st.zeilen, Artikelzeile(z)),
   gesamt |-> z.preis_eur]

\* the body of "for z in artikel": gesamt += z.preis_eur; zeilen.append(row)
Artikelschritt(st, z) ==
  [zeilen |-> Append(st.zeilen, Artikelzeile(z)),
   gesamt |-> float_add(st.gesamt, z.preis_eur)]

RECURSIVE Artikelschleife(_, _)
Artikelschleife(artikel, st) ==
  IF artikel = <<>> THEN st
  ELSE Artikelschleife(Tail(artikel), Artikelschritt(st, Head(artikel)))

\* for abteilung, artikel in sortierte_gruppen: header row, then the items
RECURSIVE Gruppenschleife(_, _)
Gruppenschleife(sg, st) ==
  IF sg = <<>> THEN st
  ELSE Gruppenschleife(Tail(sg),
         Artikelschleife(Head(sg)[2],
           [zeilen |-> Append(st.zeilen, Kopfzeile(Head(sg)[1])),
            gesamt |-> st.gesamt]))

\* the rows of the table body: zeilen, closed by the total row
erstelle_einkaufsliste(zs) ==
  LET gruppen == Gruppiere(zs)
      sortierte_gruppen == sorted(gruppen)
      st == Gruppenschleife(sortierte_gruppen, [zeilen |-> <<>>, gesamt |-> Null])
  IN  Append(st.zeilen, Gesamtzeile(st.gesamt))

\* --------------------------------------------------- erstelle_zubereitung
\* the characters of the model's texts: a digit, the two marker closers, a
\* blank, a letter and the line break
Zeichen == {"1", ".", ")", " ", "a", "\n"}
Ziffern == {"1"}
Leerraum == {" ", "\n"}
Zeilenumbruch == {"\n"}

\* str.splitlines(): the pieces between line breaks; a closing line break
\* opens no further line
RECURSIVE splitlines(_)
splitlines(t) ==
  IF t = <<>> THEN <<>>
  ELSE IF \E i \in 1..Len(t) : t[i] \in Zeilenumbruch
       THEN LET n == CHOOSE i \in 1..Len(t) :
                       /\ t[i] \in Zeilenumbruch
                       /\ \A j \in 1..(i - 1) : t[j] \notin Zeilenumbruch
            IN  <<SubSeq(t, 1, n - 1)>> \o splitlines(SubSeq(t, n + 1, Len(t)))
       ELSE <<t>>

\* mutant of strip: lstrip(), the trailing whitespace stays
strip_nur_links(s) ==
  LET fest == {i \in 1..Len(s) : s[i] \notin {" ", "\n"}}
  IN  IF fest = {} THEN <<>>
      ELSE SubSeq(s, CHOOSE i \in fest : \A j \in fest : i <= j, Len(s))

\* str.strip(): without the leading and the trailing whitespace
strip(s) ==
  LET fest == {i \in 1..Len(s) : s[i] \notin Leerraum}
  IN  IF fest = {} THEN <<>>
      ELSE SubSeq(s, CHOOSE i \in fest : \A j \in fest : i <= j,
                     CHOOSE i \in fest : \A j \in fest : j <= i)

\* the length of the longest prefix of s from position von on made of klasse
Lauf(s, von, klasse) ==
  Cardinality({i \in von..Len(s) : \A j \in von..i : s[j] \in klasse})

\* mutant of re_sub: the pattern without its closing \s*
re_sub_ohne_leerraum(schritt) ==
  LET d == Cardinality({i \in 1..Len(schritt) : \A j \in 1..i : schritt[j] \in {"1"}})
  IN  IF d >= 1 /\ d + 1 <= Len(schritt) /\ schritt[d + 1] \in {".", ")"}
      THEN SubSeq(schritt, d + 2, Len(schritt))
      ELSE schritt

\* re.sub(r"^\d+[\.\)]\s*", "", schritt): without flags ^ is the start of
\* the string, so at most one match is replaced
re_sub(schritt) ==
  LET d == Lauf(schritt, 1, Ziffern)
  IN  IF d >= 1 /\ d + 1 <= Len(schritt) /\ schritt[d + 1] \in {".", ")"}
      THEN SubSeq(schritt, d + 2 + Lauf(schritt, d + 2, Leerraum), Len(schritt))
      ELSE schritt

\* the texts of the list items, in order
erstelle_zubereitung(zubereitung) ==
  LET zeilen == splitlines(zubereitung)
      schritte == SelectSeq([i \in 1..Len(zeilen) |-> strip(zeilen[i])],
                            LAMBDA s : s # <<>>)
  IN  [i \in 1..Len(schritte) |-> re_sub(schritte[i])]

\* ------------------------------------------------ schema and output parser
\* a JSON value of the backend's answer: its JSON type and its content
Wert(typ, wert) == [typ |-> typ, wert |-> wert]

\* what pydantic accepts for an annotation: str takes a string, float a
\* number, int an integer; a missing key ("fehlt") and null fit none;
\* Field(description=...) adds no constraint
Passt(annotation, w) ==
  CASE annotation = "str" -> w.typ = "str"
    [] annotation = "float" -> w.typ \in {"float", "int"}
    [] annotation = "int" -> w.typ = "int"

ZutatFelder ==
  [name |-> "str", menge |-> "str", abteilung |-> "str", preis_eur |-> "float"]

RezeptFelder ==
  [titel |-> "str", kurzbeschreibung |-> "str", zubereitung |-> "str",
   vorbereitungszeit |-> "int", kochzeit |-> "int", gesamtzeit |-> "int",
   portionen |-> "int", schwierigkeit |-> "str"]

\* class Zutat(BaseModel): every field required and of its annotation
ZutatGueltig(o) ==
  \A f \in DOMAIN ZutatFelder : Passt(ZutatFelder[f], o[f])

\* class RezeptAusgabe(BaseModel): every field required and of its
\* annotation, zutaten a list of Zutat
RezeptGueltig(o) ==
  /\ \A f \in DOMAIN RezeptFelder : Passt(RezeptFelder[f], o[f])
  /\ \A i \in 1..Len(o.zutaten) : ZutatGueltig(o.zutaten[i])

\* the typed objects built from a valid answer
ZutatAus(o) == [f \in DOMAIN ZutatFelder |-> o[f].wert]

RezeptAus(o) ==
  [f \in DOMAIN RezeptFelder \cup {"zutaten"} |->
     IF f = "zutaten" THEN [i \in 1..Len(o.zutaten) |-> ZutatAus(o.zutaten[i])]
     ELSE o[f].wert]

Ausnahme(typ, meldung) == [typ |-> typ, meldung |-> meldung]
KeineAusnahme == Ausnahme("keine", "")

KeinRezept == [da |-> FALSE, r |-> <<>>]

\* parser.parse on the model's text roh = [json, objekt]: text that is no
\* JSON and JSON that fails the schema both raise OutputParserException
parse(roh) ==
  IF ~roh.json
  THEN [rezept |-> KeinRezept,
        exc |-> Ausnahme("OutputParserException", "Invalid json output")]
  ELSE IF ~RezeptGueltig(roh.objekt)
  THEN [rezept |-> KeinRezept,
        exc |-> Ausnahme("OutputParserException", "Failed to parse RezeptAusgabe")]
  ELSE [rezept |-> [da |-> TRUE, r |-> RezeptAus(roh.objekt)],
        exc |-> KeineAusnahme]

\* ------------------------------------------------------ erstelle_ergebnis
schwierigkeit_farbe(schwierigkeit) ==
  CASE schwierigkeit = "Einfach" -> "success"
    [] schwierigkeit = "Mittel" -> "warning"
    [] schwierigkeit = "Schwer" -> "danger"
    [] OTHER -> "secondary"

\* the result view: header card, shopping list and preparation
erstelle_ergebnis(rezept) ==
  [komponente |-> "Ergebnis",
   titel |-> rezept.titel,
   kurzbeschreibung |-> rezept.kurzbeschreibung,
   portionen |-> rezept.portionen,
   schwierigkeit |-> rezept.schwierigkeit,
   farbe |-> schwierigkeit_farbe(rezept.schwierigkeit),
   vorbereitung |-> rezept.vorbereitungszeit,
   kochen |-> rezept.kochzeit,
   gesamt |-> rezept.gesamtzeit,
   einkaufsliste |-> erstelle_einkaufsliste(rezept.zutaten),
   zubereitung |-> erstelle_zubereitung(rezept.zubereitung)]

\* ------------------------------------------------------- rezept_erstellen
\* the State value of the input field: None, or a string
None == [none |-> TRUE, s |-> <<>>]
Str(s) == [none |-> FALSE, s |-> s]

\* mutant of IstLeer: "not gericht" alone
IstLeer_OhneStrip(g) == g.none \/ g.s = <<>>

\* "not gericht or not gericht.strip()": None, "" and whitespace only
IstLeer(g) == (g.none \/ g.s = <<>>) \/ strip(g.s) = <<>>

Warnung ==
  [komponente |-> "Alert", color |-> "warning",
   children |-> <<"Bitte geben Sie zunaechst ein Gericht ein.">>]

\* the alert of the except branch: a fixed prefix and str(exc)
Fehleranzeige(exc) ==
  [komponente |-> "Alert", color |-> "danger",
   children |-> <<"Fehler beim Abrufen des Rezepts: ", exc.meldung>>]

\* mutant of Abgefangen: "except OutputParserException"
Abgefangen_NurParser(exc) == exc.typ = "OutputParserException"

\* "except Exception": both kinds of exception derive from Exception
Abgefangen(exc) == exc.typ \in {"OutputParserException", "BackendError"}

\* mutant of except_zweig: the chain is invoked once more after a failure
except_zweig_wiederholt(exc, n) ==
  [pc |-> "chain", aufrufe |-> n + 1,
   ergebnis |-> [komponente |-> "Alert", color |-> "danger",
                 children |-> <<"Fehler beim Abrufen des Rezepts: ", exc.meldung>>]]

\* the except branch: the callback returns the alert; the chain is not
\* invoked again
except_zweig(exc, n) ==
  [pc |-> "bereit", aufrufe |-> n, ergebnis |-> Fehleranzeige(exc)]

\* ------------------------------------------------------------------ state
VARIABLES
  zutaten,      \* shopping list: the ingredient sequence passed in
  tabelle,      \* shopping list: the rows returned, <<>> before the call
  pcListe,      \* shopping list: "eingabe" before the call, "fertig" after
  text,         \* steps: the preparation text passed in
  schritte,     \* steps: the items returned for text
  erneut,       \* steps: the items returned for the items joined by "\n"
  pcSchritte,   \* steps: "eingabe", "einmal" or "zweimal" (calls made)
  pc,           \* callback: "bereit" (no call running) or "chain" (in chain.invoke)
  eingaben,     \* callback: the values of gericht of all submissions so far
  anfrage,      \* callback: the dish name handed to the chain
  aufrufe,      \* callback: the number of chain.invoke calls so far
  rezept,       \* callback: the RezeptAusgabe the parser returned last, if any
  ergebnis,     \* callback: the children of ergebnis-container
  ursache,      \* callback: the exception of the last call, if any
  entkommen,    \* callback: an exception left rezept_erstellen uncaught
  protokoll     \* callback: every <<exception type, alert>> reported so far

varsListe == <<zutaten, tabelle, pcListe>>
varsSchritte == <<text, schritte, erneut, pcSchritte>>
varsRuf ==
  <<pc, eingaben, anfrage, aufrufe, rezept, ergebnis, ursache, entkommen, protokoll>>
vars == <<varsListe, varsSchritte, varsRuf>>

Leer == [komponente |-> "leer"]

RuhtListe == zutaten = <<>> /\ tabelle = <<>> /\ pcListe = "eingabe"
RuhtSchritte ==
  text = <<>> /\ schritte = <<>> /\ erneut = <<>> /\ pcSchritte = "eingabe"
RuhtRuf ==
  /\ pc = "bereit"
  /\ eingaben = <<>>
  /\ anfrage = <<>>
  /\ aufrufe = 0
  /\ rezept = KeinRezept
  /\ ergebnis = Leer
  /\ ursache = KeineAusnahme
  /\ entkommen = FALSE
  /\ protokoll = {}

SeqBis(S, n) == UNION {[1..k -> S] : k \in 0..n}

\* ------------------------------------------------- the organizer, applied
Namen == {"Ei", "Mehl"}
Mengen == {"1 EL"}
\* two departments of the list, out of walk order when taken alphabetically,
\* and two outside it
Abteilungen == {"Backwaren", "Obst & Gemuese", "Exotic Spices", "Bio"}
\* 0.125 euro, 0.375 euro and 2^50 euro
Preise == {<<0, 1>>, <<0, 3>>, <<1, 0>>}

ZutatWerte ==
  [name : Namen, menge : Mengen, abteilung : Abteilungen, preis_eur : Preise]

InitListe ==
  /\ zutaten \in SeqBis(ZutatWerte, MaxZutaten)
  /\ tabelle = <<>>
  /\ pcListe = "eingabe"
  /\ RuhtSchritte
  /\ RuhtRuf

RufeEinkaufsliste ==
  /\ pcListe = "eingabe"
  /\ tabelle' = erstelle_einkaufsliste(zutaten)
  /\ pcListe' = "fertig"
  /\ UNCHANGED <<zutaten, varsSchritte, varsRuf>>

NextListe == RufeEinkaufsliste

SpecListe == InitListe /\ [][NextListe]_vars

\* ------------------------------------------------ the normalizer, applied
\* "\n".join(items)
RECURSIVE join(_)
join(items) ==
  IF items = <<>> THEN <<>>
  ELSE IF Len(items) = 1 THEN items[1]
  ELSE items[1] \o <<"\n">> \o join(Tail(items))

InitSchritte ==
  /\ text \in SeqBis(Zeichen, MaxLen)
  /\ schritte = <<>>
  /\ erneut = <<>>
  /\ pcSchritte = "eingabe"
  /\ RuhtListe
  /\ RuhtRuf

RufeZubereitung ==
  /\ pcSchritte = "eingabe"
  /\ schritte' = erstelle_zubereitung(text)
  /\ pcSchritte' = "einmal"
  /\ UNCHANGED <<text, erneut, varsListe, varsRuf>>

RufeZubereitungErneut ==
  /\ pcSchritte = "einmal"
  /\ erneut' = erstelle_zubereitung(join(schritte))
  /\ pcSchritte' = "zweimal"
  /\ UNCHANGED <<text, schritte, varsListe, varsRuf>>

NextSchritte == RufeZubereitung \/ RufeZubereitungErneut

SpecSchritte == InitSchritte /\ [][NextSchritte]_vars

\* ------------------------------------------------- the callback, running
\* values of the input field
Gerichte == {None, Str(<<>>), Str(<<" ">>), Str(<<"a", " ">>)}

\* the answers of the backend: no JSON at all, or an object whose title is
\* a text, a blank text or missing, whose one ingredient has a price that is
\* positive, negative or null, and whose times and servings vary in sign
Titel == {Wert("str", "Pasta"), Wert("str", " "), Wert("fehlt", "")}
PreisWerte ==
  {Wert("float", <<0, 1>>), Wert("float", <<0, -1>>), Wert("null", <<0, 0>>)}
Zeiten == {Wert("int", 10), Wert("int", -5)}
Portionen == {Wert("int", 4), Wert("int", 0)}

Objekt(t, p, z, n) ==
  [titel |-> t,
   kurzbeschreibung |-> Wert("str", "Lecker."),
   zutaten |-> << [name |-> Wert("str", "Ei"), menge |-> Wert("str", "1 EL"),
                   abteilung |-> Wert("str", "Bio"), preis_eur |-> p] >>,
   zubereitung |-> Wert("str", <<"1", ".", "a">>),
   vorbereitungszeit |-> z,
   kochzeit |-> Wert("int", 20),
   gesamtzeit |-> Wert("int", 30),
   portionen |-> n,
   schwierigkeit |-> Wert("str", "Mittel")]

Antworten ==
  {[json |-> FALSE, objekt |-> Objekt(t, p, z, n)] :
     t \in {Wert("fehlt", "")}, p \in {Wert("null", <<0, 0>>)},
     z \in {Wert("int", 10)}, n \in {Wert("int", 4)}}
  \cup {[json |-> TRUE, objekt |-> Objekt(t, p, z, n)] :
          t \in Titel, p \in PreisWerte, z \in Zeiten, n \in Portionen}

\* failures of the model call: transport, quota
BackendFehler ==
  {Ausnahme("BackendError", "Connection error."),
   Ausnahme("BackendError", "Error code: 429")}

Init ==
  /\ RuhtRuf
  /\ RuhtListe
  /\ RuhtSchritte

\* the callback fires with gericht = g: the guard, and for a dish name the
\* entry into chain.invoke({"gericht": gericht.strip()})
Einreichen(g) ==
  /\ pc = "bereit"
  /\ Len(eingaben) < MaxEinreichungen
  /\ eingaben' = Append(eingaben, g)
  /\ IF IstLeer(g)
     THEN /\ ergebnis' = Warnung
          /\ UNCHANGED <<pc, anfrage, aufrufe>>
     ELSE /\ pc' = "chain"
          /\ anfrage' = strip(g.s)
          /\ aufrufe' = aufrufe + 1
          /\ UNCHANGED ergebnis
  /\ rezept' = KeinRezept
  /\ ursache' = KeineAusnahme
  /\ UNCHANGED <<entkommen, protokoll, varsListe, varsSchritte>>

\* an exception exc reaches the try block of the callback
Ausnahmebehandlung(exc) ==
  /\ ursache' = exc
  /\ rezept' = KeinRezept
  /\ IF Abgefangen(exc)
     THEN /\ pc' = except_zweig(exc, aufrufe).pc
          /\ aufrufe' = except_zweig(exc, aufrufe).aufrufe
          /\ ergebnis' = except_zweig(exc, aufrufe).ergebnis
          /\ protokoll' =
               protokoll \cup {<<exc.typ, except_zweig(exc, aufrufe).ergebnis>>}
          /\ UNCHANGED entkommen
     ELSE /\ pc' = "bereit"
          /\ entkommen' = TRUE
          /\ UNCHANGED <<aufrufe, ergebnis, protokoll>>

\* chain.invoke raises in the model call
ModellScheitert(exc) ==
  /\ pc = "chain"
  /\ Ausnahmebehandlung(exc)
  /\ UNCHANGED <<eingaben, anfrage, varsListe, varsSchritte>>

\* the model call returns roh; the parser raises or returns the recipe, and
\* the callback returns the result view
ModellAntwortet(roh) ==
  /\ pc = "chain"
  /\ IF parse(roh).rezept.da
     THEN /\ rezept' = parse(roh).rezept
          /\ ergebnis' = erstelle_ergebnis(parse(roh).rezept.r)
          /\ pc' = "bereit"
          /\ ursache' = KeineAusnahme
          /\ UNCHANGED <<aufrufe, entkommen, protokoll>>
     ELSE Ausnahmebehandlung(parse(roh).exc)
  /\ UNCHANGED <<eingaben, anfrage, varsListe, varsSchritte>>

Next ==
  \/ \E g \in Gerichte : Einreichen(g)
  \/ \E exc \in BackendFehler : ModellScheitert(exc)
  \/ \E roh \in Antworten : ModellAntwortet(roh)

Spec == Init /\ [][Next]_vars

\* ----------------------------------------- reading the emitted table back
\* the departments of the header rows, in emitted order
EmittierteAbteilungen(t) ==
  LET k == SelectSeq(t, LAMBDA r : r.typ = "kopf")
  IN  [i \in 1..Len(k) |-> k[i].abteilung]

\* the position in t of the n-th header row
KopfPosition(t, n) ==
  CHOOSE i \in 1..Len(t) :
    /\ t[i].typ = "kopf"
    /\ Cardinality({j \in 1..i : t[j].typ = "kopf"}) = n

\* the item rows listed under the n-th header row
ArtikelUnter(t, n) ==
  LET von == KopfPosition(t, n)
      bis == CHOOSE e \in von..Len(t) :
               /\ \A j \in (von + 1)..e : t[j].typ = "artikel"
               /\ (e = Len(t) \/ t[e + 1].typ # "artikel")
  IN  SubSeq(t, von + 1, bis)

\* the total shown in the closing row
GesamtAnzeige(t) == t[Len(t)].preis

\* the sum of the prices as numbers (no rounding), in input order
RECURSIVE ExakteSumme(_)
ExakteSumme(zs) ==
  IF zs = <<>> THEN <<0, 0>>
  ELSE LET r == ExakteSumme(Tail(zs))
       IN  <<Head(zs).preis_eur[1] + r[1], Head(zs).preis_eur[2] + r[2]>>

\* a number's value in cents, rounded half-even: <<hi, c>> as in Format2
InCent(x) ==
  <<x[1], IF (25 * x[2]) % 2 = 0 THEN (25 * x[2]) \div 2
          ELSE IF ((25 * x[2] - 1) \div 2) % 2 = 0 THEN (25 * x[2] - 1) \div 2
          ELSE (25 * x[2] + 1) \div 2>>

\* C1: the department groups are emitted in non-decreasing position in
\* SUPERMARKT_REIHENFOLGE, and no group whose department is outside the list
\* comes before a group whose department is in it.
C1_KanonischeOrdnung ==
  pcListe = "fertig" =>
    LET abt == EmittierteAbteilungen(tabelle)
        R == SUPERMARKT_REIHENFOLGE
    IN  \A i, j \in 1..Len(abt) :
          i < j =>
            /\ (InReihenfolge(abt[i]) /\ InReihenfolge(abt[j]))
                 => \E a, b \in 1..Len(R) : a <= b /\ R[a] = abt[i] /\ R[b] = abt[j]
            /\ ~(~InReihenfolge(abt[i]) /\ InReihenfolge(abt[j]))

\* C1 witness: a table was built from an input that names an unlisted
\* department first and the two listed ones against the walk order, and the
\* table shows them reordered.
C1_Zeuge ==
  /\ pcListe = "fertig"
  /\ Len(zutaten) = 3
  /\ zutaten[1].abteilung = "Exotic Spices"
  /\ zutaten[2].abteilung = "Backwaren"
  /\ zutaten[3].abteilung = "Obst & Gemuese"
  /\ EmittierteAbteilungen(tabelle) = <<"Obst & Gemuese", "Backwaren", "Exotic Spices">>

\* C2: exactly one group per distinct department of the input, and under each
\* department exactly the input ingredients that carry it, each once, in
\* input order.
C2_StabileGruppierung ==
  pcListe = "fertig" =>
    LET abt == EmittierteAbteilungen(tabelle)
    IN  /\ \A i, j \in 1..Len(abt) : i # j => abt[i] # abt[j]
        /\ {abt[i] : i \in 1..Len(abt)}
             = {zutaten[i].abteilung : i \in 1..Len(zutaten)}
        /\ \A n \in 1..Len(abt) :
             LET ein == SelectSeq(zutaten, LAMBDA z : z.abteilung = abt[n])
             IN  ArtikelUnter(tabelle, n)
                   = [i \in 1..Len(ein) |->
                        [typ |-> "artikel", name |-> ein[i].name,
                         menge |-> ein[i].menge, preis |-> InCent(ein[i].preis_eur)]]
        /\ Len(tabelle) = Len(abt) + Len(zutaten) + 1

\* C2 witness: two different ingredients of one unlisted department with an
\* ingredient of another unlisted department between them.
C2_Zeuge ==
  /\ pcListe = "fertig"
  /\ Len(zutaten) = 3
  /\ zutaten[1].abteilung = "Bio"
  /\ zutaten[2].abteilung = "Exotic Spices"
  /\ zutaten[3].abteilung = "Bio"
  /\ zutaten[1].name = "Mehl" /\ zutaten[3].name = "Ei"
  /\ Len(EmittierteAbteilungen(tabelle)) = 2
  /\ ArtikelUnter(tabelle, 1)[1].name = "Mehl"
  /\ ArtikelUnter(tabelle, 1)[2].name = "Ei"

\* C3 as stated: for every ingredient sequence with non-negative prices the
\* total shown is the sum of all prices (to cents) however they are grouped,
\* and the empty sequence gives a zero total and no group.
C3_GesamtWieBehauptet ==
  pcListe = "fertig" =>
    /\ GesamtAnzeige(tabelle) = InCent(ExakteSumme(zutaten))
    /\ zutaten = <<>> => tabelle = <<[typ |-> "gesamt", preis |-> <<0, 0>>]>>

\* C3 amended: when the prices add up below 2^53 eighths of a euro, so that
\* no float addition rounds, the total shown is the sum of all prices (to
\* cents) however they are grouped, unlisted departments included; the empty
\* sequence gives a zero total and no group.
C3_GesamtOhneRundung ==
  pcListe = "fertig" =>
    /\ ExakteSumme(zutaten)[1] = 0
         => GesamtAnzeige(tabelle) = InCent(ExakteSumme(zutaten))
    /\ zutaten = <<>> => tabelle = <<[typ |-> "gesamt", preis |-> <<0, 0>>]>>

\* C3 witness: three prices that add up exactly, two groups emitted against
\* input order, one of them unlisted, and the total 0.125 + 0.375 + 0.375
\* shown as 0.88.
C3_Zeuge ==
  /\ pcListe = "fertig"
  /\ Len(zutaten) = 3
  /\ zutaten[1].abteilung = "Exotic Spices" /\ zutaten[1].preis_eur = <<0, 1>>
  /\ zutaten[2].abteilung = "Backwaren" /\ zutaten[2].preis_eur = <<0, 3>>
  /\ zutaten[3].abteilung = "Exotic Spices" /\ zutaten[3].preis_eur = <<0, 3>>
  /\ EmittierteAbteilungen(tabelle) = <<"Backwaren", "Exotic Spices">>
  /\ GesamtAnzeige(tabelle) = <<0, 88>>

\* ------------------------------------------------- reading the text's lines
\* s begins with a numbering marker: digits, then "." or ")"
BeginntMitMarker(s) ==
  \E d \in 1..Len(s) :
    /\ \A i \in 1..d : s[i] \in Ziffern
    /\ d + 1 <= Len(s)
    /\ s[d + 1] \in {".", ")"}

\* p is one numbering marker: digits, "." or ")", then whitespace only
IstMarker(p) ==
  \E d \in 1..Len(p) :
    /\ \A i \in 1..d : p[i] \in Ziffern
    /\ d + 1 <= Len(p)
    /\ p[d + 1] \in {".", ")"}
    /\ \A i \in (d + 2)..Len(p) : p[i] \in Leerraum

\* schritt is zeile with at most one leading marker removed and the rest kept
IstSchrittVon(schritt, zeile) ==
  \E n \in 0..Len(zeile) :
    /\ schritt = SubSeq(zeile, n + 1, Len(zeile))
    /\ \/ n = 0 /\ ~BeginntMitMarker(zeile)
       \/ /\ IstMarker(SubSeq(zeile, 1, n))
          /\ (schritt = <<>> \/ schritt[1] \notin Leerraum)

\* the lines of t that hold more than whitespace, as <<first, last>> index
\* pairs of the maximal stretches without a line break
Textzeilen(t) ==
  {ij \in (1..Len(t)) \X (1..Len(t)) :
     /\ ij[1] <= ij[2]
     /\ \A k \in ij[1]..ij[2] : t[k] # "\n"
     /\ (ij[1] = 1 \/ t[ij[1] - 1] = "\n")
     /\ (ij[2] = Len(t) \/ t[ij[2] + 1] = "\n")
     /\ \E k \in ij[1]..ij[2] : t[k] # " "}

\* the n-th of them in text order
Textzeile(t, n) ==
  LET ij == CHOOSE x \in Textzeilen(t) :
              Cardinality({y \in Textzeilen(t) : y[1] < x[1]}) = n - 1
  IN  SubSeq(t, ij[1], ij[2])

\* a line between its first and its last character that is not a blank
Getrimmt(z) ==
  LET ab == CHOOSE x \in (1..Len(z)) \X (1..Len(z)) :
              /\ z[x[1]] # " " /\ z[x[2]] # " "
              /\ \A i \in 1..Len(z) : (i < x[1] \/ i > x[2]) => z[i] = " "
  IN  SubSeq(z, ab[1], ab[2])

\* C4 as stated: normalizing the steps of a first run, joined by line
\* breaks, gives the same steps again.
C4_IdempotentWieBehauptet ==
  pcSchritte = "zweimal" => erneut = schritte

\* C4 amended: normalizing the steps of a first run, joined by line breaks,
\* gives the same steps again whenever no step of the first run is empty or
\* itself begins with a numbering marker.
C4_IdempotentOhneRestmarker ==
  (/\ pcSchritte = "zweimal"
   /\ \A i \in 1..Len(schritte) :
        schritte[i] # <<>> /\ ~BeginntMitMarker(schritte[i]))
    => erneut = schritte

\* C4 witness: a numbered and an unnumbered line, normalized twice to the
\* same two steps.
C4_Zeuge ==
  /\ pcSchritte = "zweimal"
  /\ text = <<"1", ")", "a", "\n", "a">>
  /\ schritte = << <<"a">>, <<"a">> >>
  /\ erneut = schritte

\* C5 as stated: one step per line that is non-empty after trimming, in
\* order, each step being its line with at most one numbering marker at the
\* start of the line removed and the rest of the line kept exactly; no step
\* for an empty or all-whitespace text.
C5_SchritteWieBehauptet ==
  pcSchritte # "eingabe" =>
    /\ Len(schritte) = Cardinality(Textzeilen(text))
    /\ \A n \in 1..Len(schritte) :
         IstSchrittVon(schritte[n], Textzeile(text, n))
    /\ (\A i \in 1..Len(text) : text[i] \in Leerraum) => schritte = <<>>

\* C5 amended: one step per line that is non-empty after trimming, in order,
\* each step being its line, trimmed of leading and trailing whitespace, with
\* at most one numbering marker at the start of the trimmed line removed and
\* the rest kept exactly; no step for an empty or all-whitespace text.
C5_SchritteGetrimmt ==
  pcSchritte # "eingabe" =>
    /\ Len(schritte) = Cardinality(Textzeilen(text))
    /\ \A n \in 1..Len(schritte) :
         IstSchrittVon(schritte[n], Getrimmt(Textzeile(text, n)))
    /\ (\A i \in 1..Len(text) : text[i] \in Leerraum) => schritte = <<>>

\* C5 witness: the line " 1. a" gave the one step "a".
C5_Zeuge ==
  /\ pcSchritte = "einmal"
  /\ text = <<" ", "1", ".", " ", "a">>
  /\ schritte = << <<"a">> >>

\* --------------------------------------------------- reading the callback
\* a submitted value that names no dish: nothing, or blanks only
Leereingabe(g) == g.none \/ \A i \in 1..Len(g.s) : g.s[i] = " "

LetzteEingabe == eingaben[Len(eingaben)]

LeererText(t) == t \in {"", " "}

\* an alert without the free text of the exception
OhneMeldung(a) ==
  [komponente |-> a.komponente, color |-> a.color, vorspann |-> a.children[1]]

\* e is the complete result view of recipe r
IstVollansicht(e, r) ==
  /\ e.komponente = "Ergebnis"
  /\ DOMAIN e = {"komponente", "titel", "kurzbeschreibung", "portionen",
                 "schwierigkeit", "farbe", "vorbereitung", "kochen", "gesamt",
                 "einkaufsliste", "zubereitung"}
  /\ e.titel = r.titel /\ e.kurzbeschreibung = r.kurzbeschreibung
  /\ e.portionen = r.portionen /\ e.schwierigkeit = r.schwierigkeit
  /\ e.vorbereitung = r.vorbereitungszeit /\ e.kochen = r.kochzeit
  /\ e.gesamt = r.gesamtzeit
  /\ Len(e.einkaufsliste) = 2 * Len(r.zutaten) + 1
  /\ e.einkaufsliste[Len(e.einkaufsliste)].typ = "gesamt"
  /\ Len(e.zubereitung) = 1

\* C6 as stated: the parser never returns a RezeptAusgabe that breaks a field
\* constraint: every text field non-empty after trimming, every price and
\* every time at least 0, servings at least 1.
C6_SchemaWieBehauptet ==
  rezept.da =>
    /\ ~LeererText(rezept.r.titel)
    /\ ~LeererText(rezept.r.kurzbeschreibung)
    /\ ~LeererText(rezept.r.schwierigkeit)
    /\ strip(rezept.r.zubereitung) # <<>>
    /\ \A i \in 1..Len(rezept.r.zutaten) :
         /\ ~LeererText(rezept.r.zutaten[i].name)
         /\ rezept.r.zutaten[i].preis_eur[1] >= 0
         /\ rezept.r.zutaten[i].preis_eur[2] >= 0
    /\ rezept.r.vorbereitungszeit >= 0
    /\ rezept.r.kochzeit >= 0
    /\ rezept.r.gesamtzeit >= 0
    /\ rezept.r.portionen >= 1

\* C7: a submission whose dish name is missing, empty or blanks only is
\* answered by the warning, and the chain is not invoked for it.
C7_LeerAbgewiesen ==
  [][(Len(eingaben') = Len(eingaben) + 1
        /\ Leereingabe(eingaben'[Len(eingaben')]))
       => (ergebnis' = Warnung /\ aufrufe' = aufrufe /\ pc' = "bereit")]_vars

\* C7 witness: a blank dish name was submitted first, the warning is shown
\* and the chain has not been invoked.
C7_Zeuge ==
  /\ eingaben = <<Str(<<" ">>)>>
  /\ ergebnis = Warnung
  /\ aufrufe = 0
  /\ pc = "bereit"

\* C8: in every sequence of submissions the chain has been invoked exactly
\* once per submission that names a dish, failed calls included.
C8_EinAufrufJeEinreichung ==
  aufrufe = Cardinality({i \in 1..Len(eingaben) : ~Leereingabe(eingaben[i])})

\* C8 witness: three submissions, one blank, two calls, a failure among them.
C8_Zeuge ==
  /\ pc = "bereit"
  /\ Len(eingaben) = 3
  /\ \E i \in 1..3 : Leereingabe(eingaben[i])
  /\ aufrufe = 2
  /\ protokoll # {}

\* C9: a submission that names a dish ends in the complete result view of
\* the recipe the parser returned or in one failure alert carrying the
\* message of the exception; no exception leaves the callback, and the
\* submission after a failure is accepted and invokes the chain as usual.
C9_EinAusgang ==
  /\ [](entkommen = FALSE)
  /\ []((pc = "bereit" /\ eingaben # <<>> /\ ~Leereingabe(LetzteEingabe))
          => \/ /\ rezept.da
                /\ ursache = KeineAusnahme
                /\ IstVollansicht(ergebnis, rezept.r)
             \/ /\ ~rezept.da
                /\ ursache # KeineAusnahme
                /\ ergebnis.komponente = "Alert"
                /\ ergebnis.color = "danger"
                /\ ergebnis.children[2] = ursache.meldung)
  /\ [][(ursache # KeineAusnahme /\ Len(eingaben') = Len(eingaben) + 1
           /\ ~Leereingabe(eingaben'[Len(eingaben')]))
          => (pc' = "chain" /\ aufrufe' = aufrufe + 1)]_vars
  /\ []((pc = "bereit" /\ ursache # KeineAusnahme
           /\ Len(eingaben) < MaxEinreichungen)
          => ENABLED (\E g \in Gerichte : Einreichen(g)))

\* C9 witness: a failure was reported earlier and the submission after it
\* shows a complete result view.
C9_Zeuge ==
  /\ pc = "bereit"
  /\ protokoll # {}
  /\ rezept.da
  /\ IstVollansicht(ergebnis, rezept.r)

\* C10 as stated: failures reach the caller as typed conditions: two
\* failures of different kinds (schema, backend) are reported by outcomes
\* that differ apart from the free text of the message.
C10_TypisiertWieBehauptet ==
  \A e1, e2 \in protokoll :
    e1[1] # e2[1] => OhneMeldung(e1[2]) # OhneMeldung(e2[2])
====
